---- MODULE Spec2Model ----
\* A model of the TA manager (ta_manager/src/lib.rs): the connection
\* dispatcher (TAManager::handle_ca_request and its three handlers), the
\* session registry, the session-id counter and the session worker threads
\* (session_thread), which talk over crossbeam unbounded channels.
EXTENDS Integers, Sequences, FiniteSets, TLC

\* ---------------------------------------------------------------- bounds
MaxOpens == 2      \* OpenSession requests the dispatcher accepts in a run
MaxSends == 2      \* commands sent on one worker's inbound channel
MaxParam == 1      \* Parameter Blocks are the abstract values 0..MaxParam

\* ------------------------------------------------------ program constants
\* A u32 is kept at its full width as two 16-bit halves <<high, low>>, so
\* that 2^32 - 1 and the wrap-around of the counter can be written down.
Half == 65536
U32(n) == <<n \div Half, n % Half>>
U32Max == <<Half - 1, Half - 1>>              \* 0xFFFF_FFFF
U32Lt(a, b) == a[1] < b[1] \/ (a[1] = b[1] /\ a[2] < b[2])
Zero == U32(0)
FirstSessionId == U32(1)                      \* AtomicU32::new(1)
ItemNotFound == <<Half - 1, 8>>               \* ErrorKind::ItemNotFound, 0xFFFF_0008
NotImplemented == <<Half - 1, 9>>             \* another raw code, 0xFFFF_0009

CmdIds == {7}                 \* the command ids a CA sends
Params == 0..MaxParam
DefaultParams == 0            \* Parameters::default()
\* e.raw_code() of a service-logic error: a non-zero status code
ErrCodes == {ItemNotFound, NotImplemented}
\* session ids a CA may name in a request
ReqIds == {U32(n) : n \in 0..MaxOpens}

VARIABLES
    session_id,   \* TAManager.session_id : AtomicU32
    sessions,     \* TAManager.sessions : HashMap<u32, Sender>, id -> worker
    workers,      \* the spawned session threads, in spawn order
    chan,         \* chan[w]: messages queued on worker w's inbound channel
    nsent,        \* nsent[w]: commands sent so far on worker w's channel
    replyCh,      \* the live per-call reply channels, keyed by <<w, seq>>
    disp,         \* the dispatcher thread: position and locals
    conn,         \* the CA connection being served (or served last)
    hist          \* history of the run (not program state)

vars == <<session_id, sessions, workers, chan, nsent, replyCh, disp, conn, hist>>

NoResp == [kind |-> "none"]
NoReq == [kind |-> "none"]
NoMsg == [kind |-> "none"]
NoRid == <<0, 0>>
NoId == << >>

\* ------------------------------------------------------------- responses
OpenSessionResp(sid, res) ==
    [kind |-> "OpenSession", session_id |-> sid, result |-> res]

CloseSessionResp(res) == [kind |-> "CloseSession", result |-> res]

InvokeCommandResp(p, res) ==
    [kind |-> "InvokeCommand", params |-> p, result |-> res]

\* ------------------------------------------------------ the id counter
\* fetch_add(1, SeqCst) stores the sum, which wraps around for an AtomicU32 ...
FetchAdd(c) ==
    IF c[2] < Half - 1 THEN <<c[1], c[2] + 1>> ELSE <<(c[1] + 1) % Half, 0>>

\* (mutant: the id handed out is the incremented value)
NextSessionId_Incremented(c) == FetchAdd(c)

\* ... and returns the previous value
NextSessionId(c) == c

\* ---------------------------------------------------------- the registry
Registered(sid) == sid \in DOMAIN sessions

\* HashMap::insert: adds the key or replaces the value under it
MapInsert(m, k, v) == [x \in DOMAIN m \cup {k} |-> IF x = k THEN v ELSE m[x]]

\* worker w's Receiver is alive until its thread has returned
RxAlive(w) == workers[w].pc # "exited"

\* some Sender of worker w's channel is still held in the registry
HasSender(w) == \E sid \in DOMAIN sessions : sessions[sid] = w

\* (mutant: every session thread works on the first session's context)
SessionCtx_Shared(w) == workers[1].ctx

\* the context a session thread passes to the service logic: its own ctx
SessionCtx(w) == workers[w].ctx

\* the reply channel a session thread answers on: the message's resp_tx
ReplyTarget(msg) == msg.resp_tx

\* (mutant: the thread takes the newest message first)
RxNext_Newest(q) == q[Len(q)]

\* the message rx.iter() yields next: the oldest one in the channel
RxNext(q) == Head(q)
RxRest(q) == Tail(q)

\* how the request's session id stands when the request is accepted
Classify(sid) ==
    IF sid \in hist.closed THEN "closed"
    ELSE IF sid \in hist.opened THEN "open"
    ELSE "never"

\* A connection taken from listener.incoming() with its decoded request.
\* cls, first and w are history: how the named id stood, whether this is
\* the gateway's first request to open a session, and the worker the
\* command went to.
NewConn(req) ==
    [req |-> req, resp |-> NoResp,
     cls |-> IF req.kind \in {"CloseSession", "InvokeCommand"}
             THEN Classify(req.session_id) ELSE "none",
     first |-> req.kind = "OpenSession" /\ hist.fresh,
     w |-> 0]

\* a session thread as thread::spawn leaves it: about to block on rx
\* (called and replied are history: the sequence numbers of the command it
\* took and answered last)
NewWorker(ctx) ==
    [ctx |-> ctx, pc |-> "recv", msg |-> NoMsg, using |-> 0, called |-> 0,
     replied |-> 0]

DispIdle == [pc |-> "accept", sid |-> NoId, rid |-> NoRid]

\* how far run_ta has come: create done, Register written, listener bound
NotStarted == [created |-> FALSE, registered |-> FALSE, bound |-> FALSE]
Started == [created |-> TRUE, registered |-> TRUE, bound |-> TRUE]

\* ---------------------------------------------------------------- Init
\* TAManager::new; the thread is about to call run_ta
Init ==
    /\ session_id = FirstSessionId
    /\ sessions = << >>
    /\ workers = << >>
    /\ chan = << >>
    /\ nsent = << >>
    /\ replyCh = << >>
    /\ disp = [DispIdle EXCEPT !.pc = "create"]
    /\ conn = [req |-> NoReq, resp |-> NoResp, cls |-> "none",
               first |-> FALSE, w |-> 0]
    /\ hist = [budget |-> MaxOpens, fresh |-> TRUE, opened |-> {},
               closed |-> {}, lastOpen |-> NoId, wrapped |-> FALSE,
               owner |-> << >>, boot |-> NotStarted, destroys |-> 0]

\* ------------------------------------------------------------------ run_ta
\* self.ta.create() returned Ok
TaCreateOk ==
    /\ disp.pc = "create"
    /\ disp' = [disp EXCEPT !.pc = "register"]
    /\ hist' = [hist EXCEPT !.boot.created = TRUE]
    /\ UNCHANGED <<session_id, sessions, workers, chan, nsent, replyCh, conn>>

\* self.ta.create()? returned the error: run_ta returns it
TaCreateErr ==
    /\ disp.pc = "create"
    /\ disp' = [disp EXCEPT !.pc = "error"]
    /\ UNCHANGED <<session_id, sessions, workers, chan, nsent, replyCh, conn,
                   hist>>

\* register_ta: connected to the directory socket and wrote Register{uuid}
RegisterTaOk ==
    /\ disp.pc = "register"
    /\ disp' = [disp EXCEPT !.pc = "bind"]
    /\ hist' = [hist EXCEPT !.boot.registered = TRUE]
    /\ UNCHANGED <<session_id, sessions, workers, chan, nsent, replyCh, conn>>

\* (mutant: a failed registration is ignored and the gateway goes on)
RegisterTaErr_Ignored ==
    /\ disp.pc = "register"
    /\ disp' = [disp EXCEPT !.pc = "bind"]
    /\ UNCHANGED <<session_id, sessions, workers, chan, nsent, replyCh, conn,
                   hist>>

\* register_ta()?: connect, encode or write_all failed: run_ta returns
RegisterTaErr ==
    /\ disp.pc = "register"
    /\ disp' = [disp EXCEPT !.pc = "error"]
    /\ UNCHANGED <<session_id, sessions, workers, chan, nsent, replyCh, conn,
                   hist>>

\* handle_ca_request: UnixListener::bind succeeded, the accept loop starts
BindOk ==
    /\ disp.pc = "bind"
    /\ disp' = DispIdle
    /\ hist' = [hist EXCEPT !.boot.bound = TRUE]
    /\ UNCHANGED <<session_id, sessions, workers, chan, nsent, replyCh, conn>>

\* UnixListener::bind(path)? failed
BindErr ==
    /\ disp.pc = "bind"
    /\ disp' = [disp EXCEPT !.pc = "error"]
    /\ UNCHANGED <<session_id, sessions, workers, chan, nsent, replyCh, conn,
                   hist>>

\* ------------------------------------------------------- handle_open_session
\* The dispatcher accepts a connection, decodes an OpenSession request,
\* takes the next session id and enters ta.open_session.
OpenSessionCall(p) ==
    /\ disp.pc = "accept"
    /\ hist.budget > 0
    /\ conn' = NewConn([kind |-> "OpenSession", params |-> p])
    /\ disp' = [pc |-> "open_session", sid |-> NextSessionId(session_id),
                rid |-> NoRid]
    /\ session_id' = FetchAdd(session_id)
    /\ hist' = [hist EXCEPT !.budget = @ - 1,
                            !.fresh = FALSE,
                            !.wrapped = @ \/ session_id = U32Max]
    /\ UNCHANGED <<sessions, workers, chan, nsent, replyCh>>

\* ta.open_session returned Ok(ctx): register the channel, spawn the thread,
\* write the response.
OpenSessionOk ==
    /\ disp.pc = "open_session"
    /\ LET w == Len(workers) + 1
           ctx == Len(workers) + 1
       IN /\ sessions' = MapInsert(sessions, disp.sid, w)
          /\ workers' = Append(workers, NewWorker(ctx))
          /\ chan' = Append(chan, << >>)
          /\ nsent' = Append(nsent, 0)
          /\ hist' = [hist EXCEPT !.opened = @ \cup {disp.sid},
                                  !.closed = @ \ {disp.sid},
                                  !.lastOpen = disp.sid,
                                  !.owner = Append(@, w)]
    /\ conn' = [conn EXCEPT !.resp = OpenSessionResp(disp.sid, Zero)]
    /\ disp' = DispIdle
    /\ UNCHANGED <<session_id, replyCh>>

\* (mutant: the channel is registered and the thread spawned before the
\* result of open_session is looked at)
OpenSessionErr_Registers(e) ==
    /\ disp.pc = "open_session"
    /\ sessions' = MapInsert(sessions, disp.sid, Len(workers) + 1)
    /\ workers' = Append(workers, NewWorker(Len(workers) + 1))
    /\ chan' = Append(chan, << >>)
    /\ nsent' = Append(nsent, 0)
    /\ hist' = [hist EXCEPT !.owner = Append(@, Len(workers) + 1)]
    /\ conn' = [conn EXCEPT !.resp = OpenSessionResp(disp.sid, e)]
    /\ disp' = DispIdle
    /\ UNCHANGED <<session_id, replyCh>>

\* ta.open_session returned Err(e): write the response, nothing else.
OpenSessionErr(e) ==
    /\ disp.pc = "open_session"
    /\ conn' = [conn EXCEPT !.resp = OpenSessionResp(disp.sid, e)]
    /\ disp' = DispIdle
    /\ UNCHANGED <<session_id, sessions, workers, chan, nsent, replyCh, hist>>

\* ------------------------------------------------ sending to a worker
InvokeMsg(cmd, p, rid, seq) ==
    [kind |-> "Invoke", cmd_id |-> cmd, params |-> p, resp_tx |-> rid,
     seq |-> seq]

CloseMsg(rid, seq) == [kind |-> "Close", resp_tx |-> rid, seq |-> seq]

EmptyReply == [st |-> "empty"]
\* a reply in the channel; svc is history: the service call it answers
FullReply(r, g) == [st |-> "full", resp |-> r, svc |-> g]
DroppedReply == [st |-> "disc"]

\* the reply channel created by unbounded() for the next command to w
FreshRid(w) == <<w, nsent[w] + 1>>

\* tx.send(msg) on worker w's channel while its Receiver is alive
ChanSend(w, msg) ==
    /\ chan' = [chan EXCEPT ![w] = Append(@, msg)]
    /\ nsent' = [nsent EXCEPT ![w] = @ + 1]
    /\ replyCh' = MapInsert(replyCh, msg.resp_tx, EmptyReply)

\* (mutant: the reply never reaches the channel)
ReplySend_Lost(rid, r, g) == replyCh

\* Sender::send on the per-call reply channel; the thread ignores a failure
ReplySend(rid, r, g) ==
    IF rid \in DOMAIN replyCh
    THEN [replyCh EXCEPT ![rid] = FullReply(r, g)]
    ELSE replyCh

\* the dispatcher's resp_rx goes out of scope when the handler returns
ReplyDrop(rid) == [x \in DOMAIN replyCh \ {rid} |-> replyCh[x]]

\* ------------------------------------------------------ handle_close_session
CloseSessionReq(sid) == [kind |-> "CloseSession", session_id |-> sid]

\* the response of the None arm
CloseNotFoundResp == CloseSessionResp(ItemNotFound)

\* sessions.get(&session_id) is None
CloseSessionNotFound(sid) ==
    /\ disp.pc = "accept"
    /\ ~Registered(sid)
    /\ conn' = [NewConn(CloseSessionReq(sid)) EXCEPT !.resp = CloseNotFoundResp]
    /\ UNCHANGED <<session_id, sessions, workers, chan, nsent, replyCh, disp,
                   hist>>

\* Some(tx) and tx.send succeeds: the dispatcher blocks in resp_rx.recv()
CloseSessionSend(sid) ==
    /\ disp.pc = "accept"
    /\ Registered(sid)
    /\ LET w == sessions[sid]
       IN /\ RxAlive(w)
          /\ nsent[w] < MaxSends
          /\ ChanSend(w, CloseMsg(FreshRid(w), nsent[w] + 1))
          /\ disp' = [pc |-> "recv", sid |-> sid, rid |-> FreshRid(w)]
    /\ conn' = [NewConn(CloseSessionReq(sid)) EXCEPT !.w = sessions[sid]]
    /\ UNCHANGED <<session_id, sessions, workers, hist>>

\* Some(tx) but the worker's Receiver is gone: tx.send(..)? returns the error
CloseSessionSendErr(sid) ==
    /\ disp.pc = "accept"
    /\ Registered(sid)
    /\ ~RxAlive(sessions[sid])
    /\ conn' = NewConn(CloseSessionReq(sid))
    /\ disp' = [disp EXCEPT !.pc = "error"]
    /\ UNCHANGED <<session_id, sessions, workers, chan, nsent, replyCh, hist>>

\* the registry when handle_close_session returns after the worker's reply
RegistryAfterClose(sid) == sessions

\* resp_rx.recv() yields the worker's reply: it is written to the CA
CloseSessionRecv ==
    /\ disp.pc = "recv"
    /\ conn.req.kind = "CloseSession"
    /\ replyCh[disp.rid].st = "full"
    /\ conn' = [conn EXCEPT !.resp = replyCh[disp.rid].resp]
    /\ replyCh' = ReplyDrop(disp.rid)
    /\ sessions' = RegistryAfterClose(disp.sid)
    /\ hist' = [hist EXCEPT !.closed = @ \cup {disp.sid}]
    /\ disp' = DispIdle
    /\ UNCHANGED <<session_id, workers, chan, nsent>>

\* resp_rx.recv()? fails: the command was dropped without an answer
CloseSessionRecvErr ==
    /\ disp.pc = "recv"
    /\ conn.req.kind = "CloseSession"
    /\ replyCh[disp.rid].st = "disc"
    /\ replyCh' = ReplyDrop(disp.rid)
    /\ disp' = [disp EXCEPT !.pc = "error"]
    /\ UNCHANGED <<session_id, sessions, workers, chan, nsent, conn, hist>>

\* ----------------------------------------------------- handle_invoke_command
InvokeCommandReq(sid, cmd, p) ==
    [kind |-> "InvokeCommand", session_id |-> sid, cmd_id |-> cmd,
     params |-> p]

\* (mutant: the answer carries an empty Parameter Block)
InvokeNotFoundResp_Empty(p) == InvokeCommandResp(DefaultParams, ItemNotFound)

\* the response of the None arm: the request's params and ItemNotFound
InvokeNotFoundResp(p) == InvokeCommandResp(p, ItemNotFound)

InvokeCommandNotFound(sid, cmd, p) ==
    /\ disp.pc = "accept"
    /\ ~Registered(sid)
    /\ conn' = [NewConn(InvokeCommandReq(sid, cmd, p))
                   EXCEPT !.resp = InvokeNotFoundResp(p)]
    /\ UNCHANGED <<session_id, sessions, workers, chan, nsent, replyCh, disp,
                   hist>>

\* (mutant: the dispatcher sends the command and goes back to accept
\* without waiting for the worker's reply)
InvokeCommandSend_NoWait(sid, cmd, p) ==
    /\ disp.pc = "accept"
    /\ Registered(sid)
    /\ LET w == sessions[sid]
       IN /\ RxAlive(w)
          /\ nsent[w] < MaxSends
          /\ ChanSend(w, InvokeMsg(cmd, p, FreshRid(w), nsent[w] + 1))
    /\ conn' = [NewConn(InvokeCommandReq(sid, cmd, p)) EXCEPT !.w = sessions[sid]]
    /\ UNCHANGED <<session_id, sessions, workers, disp, hist>>

\* Some(tx) and tx.send succeeds: the dispatcher blocks in resp_rx.recv()
InvokeCommandSend(sid, cmd, p) ==
    /\ disp.pc = "accept"
    /\ Registered(sid)
    /\ LET w == sessions[sid]
       IN /\ RxAlive(w)
          /\ nsent[w] < MaxSends
          /\ ChanSend(w, InvokeMsg(cmd, p, FreshRid(w), nsent[w] + 1))
          /\ disp' = [pc |-> "recv", sid |-> sid, rid |-> FreshRid(w)]
    /\ conn' = [NewConn(InvokeCommandReq(sid, cmd, p)) EXCEPT !.w = sessions[sid]]
    /\ UNCHANGED <<session_id, sessions, workers, hist>>

InvokeCommandSendErr(sid, cmd, p) ==
    /\ disp.pc = "accept"
    /\ Registered(sid)
    /\ ~RxAlive(sessions[sid])
    /\ conn' = NewConn(InvokeCommandReq(sid, cmd, p))
    /\ disp' = [disp EXCEPT !.pc = "error"]
    /\ UNCHANGED <<session_id, sessions, workers, chan, nsent, replyCh, hist>>

\* (mutant: the dispatcher answers with the Parameter Block of the
\* request in place of the one in the worker's reply)
InvokeCommandRecv_OwnParams ==
    /\ disp.pc = "recv"
    /\ conn.req.kind = "InvokeCommand"
    /\ replyCh[disp.rid].st = "full"
    /\ conn' = [conn EXCEPT !.resp = [replyCh[disp.rid].resp EXCEPT
                                         !.params = conn.req.params]]
    /\ replyCh' = ReplyDrop(disp.rid)
    /\ disp' = DispIdle
    /\ UNCHANGED <<session_id, sessions, workers, chan, nsent, hist>>

\* resp_rx.recv() yields the worker's reply: it is written to the CA
InvokeCommandRecv ==
    /\ disp.pc = "recv"
    /\ conn.req.kind = "InvokeCommand"
    /\ replyCh[disp.rid].st = "full"
    /\ conn' = [conn EXCEPT !.resp = replyCh[disp.rid].resp]
    /\ replyCh' = ReplyDrop(disp.rid)
    /\ disp' = DispIdle
    /\ UNCHANGED <<session_id, sessions, workers, chan, nsent, hist>>

InvokeCommandRecvErr ==
    /\ disp.pc = "recv"
    /\ conn.req.kind = "InvokeCommand"
    /\ replyCh[disp.rid].st = "disc"
    /\ replyCh' = ReplyDrop(disp.rid)
    /\ disp' = [disp EXCEPT !.pc = "error"]
    /\ UNCHANGED <<session_id, sessions, workers, chan, nsent, conn, hist>>

\* ------------------------------------------- the other arms of the accept loop
\* TeeRequest::RequestCancellation => todo!(): the dispatcher thread panics
RequestCancellation(sid) ==
    /\ disp.pc = "accept"
    /\ conn' = NewConn([kind |-> "RequestCancellation", session_id |-> sid])
    /\ disp' = [disp EXCEPT !.pc = "panic"]
    /\ UNCHANGED <<session_id, sessions, workers, chan, nsent, replyCh, hist>>

\* read_exact(..)? or decode_from_slice(..)? fails: handle_ca_request returns
DecodeFail ==
    /\ disp.pc = "accept"
    /\ conn' = NewConn([kind |-> "undecodable"])
    /\ disp' = [disp EXCEPT !.pc = "error"]
    /\ UNCHANGED <<session_id, sessions, workers, chan, nsent, replyCh, hist>>

\* a CA sends CARequest::Destroy, a bare variant tag: every variant the
\* accept loop matches on carries fields, so decode_from_slice(..)? fails
\* on it like on any other short buffer, and nothing calls ta.destroy()
DestroyRequest ==
    /\ disp.pc = "accept"
    /\ conn' = NewConn([kind |-> "Destroy"])
    /\ disp' = [disp EXCEPT !.pc = "error"]
    /\ UNCHANGED <<session_id, sessions, workers, chan, nsent, replyCh, hist>>

\* ------------------------------------------------------------ session_thread
ServiceResults == {Zero} \cup ErrCodes

\* rx.iter() yields a message: the thread enters the service logic with it
WorkerRecv(w) ==
    /\ workers[w].pc = "recv"
    /\ chan[w] # << >>
    /\ LET msg == RxNext(chan[w])
       IN workers' = [workers EXCEPT
             ![w] = [@ EXCEPT !.pc = IF msg.kind = "Invoke" THEN "invoke"
                                     ELSE "close",
                              !.msg = msg,
                              !.using = SessionCtx(w),
                              !.called = msg.seq]]
    /\ chan' = [chan EXCEPT ![w] = RxRest(@)]
    /\ UNCHANGED <<session_id, sessions, nsent, replyCh, disp, conn, hist>>

\* the service call worker w is returning from, with its result and the
\* Parameter Block as the call left it
SvcCall(w, res, p) ==
    [by |-> w, ctx |-> workers[w].using, msg |-> workers[w].msg,
     res |-> res, params |-> p]

\* (mutant: the error of invoke_command is dropped)
InvokeReply_Ok(p, res) == InvokeCommandResp(p, Zero)

\* the response the thread builds from the outcome of invoke_command
InvokeReply(p, res) == InvokeCommandResp(p, res)

\* the response the thread builds from the outcome of close_session
CloseReply(res) == CloseSessionResp(res)

\* ta.invoke_command returned res, leaving p in params: reply and loop
WorkerInvokeReturn(w, res, p) ==
    /\ workers[w].pc = "invoke"
    /\ replyCh' = ReplySend(ReplyTarget(workers[w].msg), InvokeReply(p, res),
                            SvcCall(w, res, p))
    /\ workers' = [workers EXCEPT
          ![w] = [@ EXCEPT !.pc = "recv", !.msg = NoMsg, !.using = 0,
                           !.replied = workers[w].msg.seq]]
    /\ UNCHANGED <<session_id, sessions, chan, nsent, disp, conn, hist>>

\* (mutant: the thread replies to Close and loops for the next message)
WorkerCloseReturn_NoBreak(w, res) ==
    /\ workers[w].pc = "close"
    /\ replyCh' = ReplySend(ReplyTarget(workers[w].msg), CloseReply(res),
                            SvcCall(w, res, DefaultParams))
    /\ workers' = [workers EXCEPT
          ![w] = [@ EXCEPT !.pc = "recv", !.msg = NoMsg, !.using = 0,
                           !.replied = workers[w].msg.seq]]
    /\ UNCHANGED <<session_id, sessions, chan, nsent, disp, conn, hist>>

\* ta.close_session returned res: reply and break out of the loop
WorkerCloseReturn(w, res) ==
    /\ workers[w].pc = "close"
    /\ replyCh' = ReplySend(ReplyTarget(workers[w].msg), CloseReply(res),
                            SvcCall(w, res, DefaultParams))
    /\ workers' = [workers EXCEPT
          ![w] = [@ EXCEPT !.pc = "break", !.msg = NoMsg, !.using = 0,
                           !.replied = workers[w].msg.seq]]
    /\ UNCHANGED <<session_id, sessions, chan, nsent, disp, conn, hist>>

\* the reply channels of the messages dropped unanswered with the queue q
Orphaned(q) == {q[i].resp_tx : i \in DOMAIN q}

\* The thread returns and rx is dropped. crossbeam-channel discards the
\* queued messages when the last Receiver goes (eager = TRUE), which
\* disconnects their reply channels; releases before that change keep them
\* until the Sender is dropped too (eager = FALSE), and their reply channels
\* stay silent.
WorkerExit(w, eager) ==
    /\ workers[w].pc = "break"
    /\ workers' = [workers EXCEPT ![w] = [@ EXCEPT !.pc = "exited"]]
    /\ IF eager
       THEN /\ chan' = [chan EXCEPT ![w] = << >>]
            /\ replyCh' = [r \in DOMAIN replyCh |->
                             IF r \in Orphaned(chan[w])
                                /\ replyCh[r].st = "empty"
                             THEN DroppedReply ELSE replyCh[r]]
       ELSE UNCHANGED <<chan, replyCh>>
    /\ UNCHANGED <<session_id, sessions, nsent, disp, conn, hist>>

\* rx.iter() ends without a Close: every Sender of the channel was dropped
WorkerDisconnected(w) ==
    /\ workers[w].pc = "recv"
    /\ chan[w] = << >>
    /\ ~HasSender(w)
    /\ workers' = [workers EXCEPT ![w] = [@ EXCEPT !.pc = "exited"]]
    /\ UNCHANGED <<session_id, sessions, chan, nsent, replyCh, disp, conn,
                   hist>>

\* ------------------------------------------------------- the gateway
\* The steps of a gateway that is serving. No Sender is dropped before the
\* id counter wraps, so WorkerDisconnected cannot happen before (NoOrphan).
Serve ==
    \/ \E p \in Params : OpenSessionCall(p)
    \/ OpenSessionOk
    \/ \E e \in ErrCodes : OpenSessionErr(e)
    \/ \E sid \in ReqIds : CloseSessionNotFound(sid)
    \/ \E sid \in ReqIds : CloseSessionSend(sid)
    \/ \E sid \in ReqIds : CloseSessionSendErr(sid)
    \/ CloseSessionRecv
    \/ CloseSessionRecvErr
    \/ \E sid \in ReqIds, cmd \in CmdIds, p \in Params : InvokeCommandNotFound(sid, cmd, p)
    \/ \E sid \in ReqIds, cmd \in CmdIds, p \in Params : InvokeCommandSend(sid, cmd, p)
    \/ \E sid \in ReqIds, cmd \in CmdIds, p \in Params : InvokeCommandSendErr(sid, cmd, p)
    \/ InvokeCommandRecv
    \/ InvokeCommandRecvErr
    \/ \E sid \in ReqIds : RequestCancellation(sid)
    \/ DecodeFail
    \/ DestroyRequest
    \/ \E w \in DOMAIN workers : WorkerRecv(w)
    \/ \E w \in DOMAIN workers, res \in ServiceResults, p \in Params :
          WorkerInvokeReturn(w, res, p)
    \/ \E w \in DOMAIN workers, res \in ServiceResults :
          WorkerCloseReturn(w, res)
    \/ \E w \in DOMAIN workers, eager \in BOOLEAN : WorkerExit(w, eager)

\* a gateway started afresh
Next ==
    \/ TaCreateOk
    \/ TaCreateErr
    \/ RegisterTaOk
    \/ RegisterTaErr
    \/ BindOk
    \/ BindErr
    \/ Serve

Spec == Init /\ [][Next]_vars

\* every live session thread still has a Sender in the registry
NoOrphan == \A w \in DOMAIN workers : RxAlive(w) => HasSender(w)

\* ------------------------------------------- the gateway near the wrap-around
\* The gateway after one successful OpenSession (id 1, its thread idle) and
\* 2^32 - 3 failed ones: each took an id and registered nothing, so the
\* counter stands at 2^32 - 1 and the last response reports a failure.
InitWrap ==
    /\ session_id = U32Max
    /\ sessions = [sid \in {U32(1)} |-> 1]
    /\ workers = <<NewWorker(1)>>
    /\ chan = << << >> >>
    /\ nsent = <<0>>
    /\ replyCh = << >>
    /\ disp = DispIdle
    /\ \E p \in Params, e \in ErrCodes :
          conn = [req |-> [kind |-> "OpenSession", params |-> p],
                  resp |-> OpenSessionResp(<<Half - 1, Half - 2>>, e),
                  cls |-> "none", first |-> FALSE, w |-> 0]
    /\ hist = [budget |-> MaxOpens + 1, fresh |-> FALSE, opened |-> {U32(1)},
               closed |-> {}, lastOpen |-> U32(1), wrapped |-> FALSE,
               owner |-> <<1>>, boot |-> Started, destroys |-> 0]

NextWrap ==
    \/ Serve
    \/ \E w \in DOMAIN workers : WorkerDisconnected(w)

SpecWrap == InitWrap /\ [][NextWrap]_vars

\* --------------------------------------------- a session thread under a harness
\* The session thread as the first successful OpenSession of a fresh gateway
\* leaves it; a harness holding its Sender sends commands without waiting
\* for the replies and keeps every reply Receiver.
InitWorker ==
    /\ session_id = U32(2)
    /\ sessions = [sid \in {U32(1)} |-> 1]
    /\ workers = <<NewWorker(1)>>
    /\ chan = << << >> >>
    /\ nsent = <<0>>
    /\ replyCh = << >>
    /\ disp = DispIdle
    /\ \E p \in Params :
          conn = [req |-> [kind |-> "OpenSession", params |-> p],
                  resp |-> OpenSessionResp(U32(1), Zero),
                  cls |-> "none", first |-> TRUE, w |-> 0]
    /\ hist = [budget |-> MaxOpens - 1, fresh |-> FALSE, opened |-> {U32(1)},
               closed |-> {}, lastOpen |-> U32(1), wrapped |-> FALSE,
               owner |-> <<1>>, boot |-> Started, destroys |-> 0]

HarnessSendInvoke(w, cmd, p) ==
    /\ RxAlive(w)
    /\ nsent[w] < MaxSends
    /\ ChanSend(w, InvokeMsg(cmd, p, FreshRid(w), nsent[w] + 1))
    /\ UNCHANGED <<session_id, sessions, workers, disp, conn, hist>>

HarnessSendClose(w) ==
    /\ RxAlive(w)
    /\ nsent[w] < MaxSends
    /\ ChanSend(w, CloseMsg(FreshRid(w), nsent[w] + 1))
    /\ UNCHANGED <<session_id, sessions, workers, disp, conn, hist>>

NextWorker ==
    \/ \E w \in DOMAIN workers, cmd \in CmdIds, p \in Params :
          HarnessSendInvoke(w, cmd, p)
    \/ \E w \in DOMAIN workers : HarnessSendClose(w)
    \/ \E w \in DOMAIN workers : WorkerRecv(w)
    \/ \E w \in DOMAIN workers, res \in ServiceResults, p \in Params :
          WorkerInvokeReturn(w, res, p)
    \/ \E w \in DOMAIN workers, res \in ServiceResults :
          WorkerCloseReturn(w, res)
    \/ \E w \in DOMAIN workers, eager \in BOOLEAN : WorkerExit(w, eager)

SpecWorker == InitWorker /\ [][NextWorker]_vars

\* ======================================================== the claims
\* the dispatcher is not in the middle of a request
Settled == disp.pc # "recv" /\ disp.pc # "open_session"

\* the dispatcher is back in listener.incoming(), ready for a connection
Serving == disp.pc = "accept"

\* this step accepts a connection carrying a request of the given kind
Accepts(kind) == disp.pc = "accept" /\ conn' # conn /\ conn'.req.kind = kind

\* C1: an InvokeCommand on a session id that a returned CloseSession has
\* closed is answered "item not found" with the request's Parameter Block,
\* and the dispatcher goes on serving.
C1_InvokeClosedNotFound ==
    (conn.req.kind = "InvokeCommand" /\ conn.cls = "closed" /\ Settled)
    => /\ conn.resp = InvokeCommandResp(conn.req.params, ItemNotFound)
       /\ Serving

\* C2: a CloseSession on a session id that was never opened or is already
\* closed is answered "item not found" and the dispatcher goes on serving
\* (so that repeating it gives the same answer), and handling it leaves the
\* registry as it was.
C2_CloseUnknownNotFound ==
    /\ []((conn.req.kind = "CloseSession"
             /\ conn.cls \in {"never", "closed"} /\ Settled)
          => /\ conn.resp = CloseSessionResp(ItemNotFound)
             /\ Serving)
    /\ [][(Accepts("CloseSession") /\ conn'.cls \in {"never", "closed"})
            => sessions' = sessions]_vars

\* this step completes a CloseSession that went to a worker
CompletesClose ==
    disp.pc = "recv" /\ conn.req.kind = "CloseSession" /\ disp'.pc = "accept"

\* C3: when a CloseSession on a registered id completes, the id is no longer
\* in the registry and the response is the worker's reply; so between
\* requests every registry entry refers to a worker that has not processed
\* Close.
C3_CloseRemovesEntry ==
    /\ [][CompletesClose =>
            /\ ~(disp.sid \in DOMAIN sessions')
            /\ conn'.resp = replyCh[disp.rid].resp]_vars
    /\ [](Serving => \A sid \in DOMAIN sessions :
                        workers[sessions[sid]].pc \in {"recv", "invoke"})

\* C4: an InvokeCommand on a never-opened session id is answered "item not
\* found" with the request's Parameter Block, and the handling leaves the
\* registry, the id counter, every worker and every channel as they were
\* and the dispatcher out of the service logic.
C4_InvokeUnknownEchoes ==
    [][(Accepts("InvokeCommand") /\ conn'.cls = "never")
        => /\ conn'.resp = InvokeCommandResp(conn'.req.params, ItemNotFound)
           /\ UNCHANGED <<session_id, sessions, workers, chan, nsent,
                          replyCh, disp>>]_vars

C4_Witness ==
    /\ conn.req.kind = "InvokeCommand"
    /\ conn.cls = "never"
    /\ conn.req.params # DefaultParams
    /\ conn.resp = InvokeCommandResp(conn.req.params, ItemNotFound)
    /\ DOMAIN sessions # {}

\* the response to an OpenSession whose open_session failed has been written
OpenFailed ==
    /\ conn.req.kind = "OpenSession"
    /\ conn.resp # NoResp
    /\ conn.resp.result # Zero

\* C5: the response to a failed OpenSession carries the service logic's
\* status code and session_id = 0.
C5_OpenFailureIdZero ==
    OpenFailed => conn.resp.result \in ErrCodes /\ conn.resp.session_id = Zero

\* this step writes the response of a failed OpenSession
FailsOpen ==
    disp.pc = "open_session" /\ disp'.pc = "accept" /\ conn'.resp.result # Zero

\* C6: a failed OpenSession adds no registry entry and spawns no worker:
\* registry, workers and channels after the request equal those before it.
C6_OpenFailureNoEntry ==
    [][FailsOpen => UNCHANGED <<sessions, workers, chan, nsent, replyCh>>]_vars

C6_Witness == OpenFailed /\ Serving /\ DOMAIN sessions # {}

\* this step writes the response of a successful OpenSession
SucceedsOpen ==
    disp.pc = "open_session" /\ disp'.pc = "accept" /\ conn'.resp.result = Zero

\* C7: a successful OpenSession answers result = 0 with the id taken from the
\* counter; when the answer is written a new worker, bound to a context no
\* other worker has, waits on the channel registered under that id; the
\* first OpenSession of a fresh gateway gets session_id = 1.
C7_OpenSuccessRegisters ==
    [][SucceedsOpen =>
         LET sid == conn'.resp.session_id
         IN /\ conn'.resp = OpenSessionResp(disp.sid, Zero)
            /\ sid \in DOMAIN sessions'
            /\ ~(sessions'[sid] \in DOMAIN workers)
            /\ sessions'[sid] \in DOMAIN workers'
            /\ workers'[sessions'[sid]].pc = "recv"
            /\ chan'[sessions'[sid]] = << >>
            /\ \A w \in DOMAIN workers :
                  workers[w].ctx # workers'[sessions'[sid]].ctx
            /\ (conn.first => sid = U32(1))]_vars

C7_Witness ==
    /\ conn.req.kind = "OpenSession"
    /\ conn.first
    /\ conn.resp = OpenSessionResp(U32(1), Zero)
    /\ sessions[U32(1)] = 1
    /\ workers[1].pc = "recv"

\* C8: a successful OpenSession never returns an id registered to a session
\* that is still open, even after the counter has wrapped, and the ids of
\* successive successful OpenSessions are strictly increasing.
C8_IdNeverReused ==
    [][SucceedsOpen =>
         /\ ~(disp.sid \in DOMAIN sessions /\ Classify(disp.sid) = "open")
         /\ (hist.lastOpen # NoId => U32Lt(hist.lastOpen, disp.sid))]_vars

\* C9: a session thread takes the commands of its channel in send order,
\* one at a time: it enters the service logic for the command sent next
\* after the one it answered last, answers the command it is in, and puts
\* the answer on the reply channel created for that command and on no other.
C9_WorkerFifo ==
    [][\A w \in DOMAIN workers :
          /\ workers'[w].called # workers[w].called
                => /\ workers'[w].called = workers[w].called + 1
                   /\ workers[w].replied = workers[w].called
          /\ workers'[w].replied # workers[w].replied
                => /\ workers'[w].replied = workers[w].replied + 1
                   /\ workers'[w].replied = workers[w].called
                   /\ replyCh'[<<w, workers'[w].replied>>].st = "full"
                   /\ \A r \in DOMAIN replyCh \ {<<w, workers'[w].replied>>} :
                         replyCh'[r] = replyCh[r]]_vars

\* the first command is in the service logic while the second one waits
C9_Witness ==
    \E w \in DOMAIN workers :
        /\ workers[w].pc = "invoke"
        /\ workers[w].called = 1
        /\ Len(chan[w]) = 1
        /\ chan[w][1].seq = 2
        /\ replyCh[<<w, 2>>].st = "empty"

\* the service-logic calls in progress, as <<thread, context>>: a session
\* thread inside invoke_command or close_session, and the dispatcher inside
\* open_session, which is producing the next context
Touching ==
    {<<w, workers[w].using>> :
        w \in {x \in DOMAIN workers : workers[x].pc \in {"invoke", "close"}}}
    \cup (IF disp.pc = "open_session"
          THEN {<<0, Len(workers) + 1>>} ELSE {})

\* C10: no two threads are in the service logic on the same Session Context,
\* and a session thread is there only on the context it was spawned with.
C10_ContextConfined ==
    /\ \A t1 \in Touching, t2 \in Touching : t1[2] = t2[2] => t1 = t2
    /\ \A t \in Touching :
          t[1] # 0 => t[2] \in DOMAIN hist.owner /\ hist.owner[t[2]] = t[1]

C10_Witness ==
    /\ Len(workers) = 2
    /\ workers[2].pc = "invoke"
    /\ workers[2].using = 2
    /\ workers[1].pc = "recv"

\* the commands worker w has been sent and has not answered: the one it is
\* in the service logic with and those waiting in its channel
Pending(w) ==
    (IF workers[w].pc \in {"invoke", "close"} THEN 1 ELSE 0)
    + (IF RxAlive(w) THEN Len(chan[w]) ELSE 0)

\* C11: the dispatcher has one request in flight at most: it takes a new
\* connection only when the previous request has its response, so that at
\* most one worker holds an unanswered command (and only one), and while a
\* worker is in the service logic the dispatcher is waiting for its reply.
C11_OneRequestInFlight ==
    /\ [][(disp.pc = "accept" /\ conn' # conn)
            => (conn.req = NoReq \/ conn.resp # NoResp)]_vars
    /\ [](/\ Cardinality({w \in DOMAIN workers : Pending(w) > 0}) <= 1
          /\ \A w \in DOMAIN workers :
                /\ Pending(w) <= 1
                /\ workers[w].pc \in {"invoke", "close"}
                      => disp.pc = "recv" /\ disp.rid = workers[w].msg.resp_tx)

C11_Witness ==
    /\ disp.pc = "recv"
    /\ Len(workers) = 2
    /\ workers[1].pc = "invoke"
    /\ workers[2].pc = "recv"
    /\ conn.resp = NoResp

\* this step is worker w coming back from the service logic with an error
ReturnsError(w) ==
    /\ workers[w].pc \in {"invoke", "close"}
    /\ workers'[w].pc # workers[w].pc
    /\ replyCh'[workers[w].msg.resp_tx].svc.res # Zero

\* this step is the dispatcher taking a reply that reports an error
RelaysError ==
    /\ disp.pc = "recv"
    /\ disp' # disp
    /\ replyCh[disp.rid].st = "full"
    /\ replyCh[disp.rid].svc.res # Zero

\* this step is the dispatcher coming back from a failed open_session
OpenReturnsError ==
    /\ disp.pc = "open_session"
    /\ disp' # disp
    /\ Len(workers') = Len(workers)

\* C12: an error of open_session, invoke_command or close_session becomes the
\* non-zero status of the response and the dispatcher goes back to accept;
\* after a failed invoke_command the session thread is at its channel
\* again, still registered.
C12_ServiceErrorsCaptured ==
    /\ [][OpenReturnsError
            => /\ conn'.resp.kind = "OpenSession"
               /\ conn'.resp.result \in ErrCodes
               /\ Serving']_vars
    /\ [][\A w \in DOMAIN workers : ReturnsError(w)
            => LET rep == replyCh'[workers[w].msg.resp_tx]
               IN /\ rep.resp.result = rep.svc.res
                  /\ disp' = disp
                  /\ sessions' = sessions
                  /\ workers[w].pc = "invoke"
                        => workers'[w].pc = "recv" /\ HasSender(w)]_vars
    /\ [][RelaysError
            => /\ conn'.resp.result = replyCh[disp.rid].svc.res
               /\ conn'.resp.kind = conn.req.kind
               /\ Serving']_vars

\* the error of an invoke_command on an open session has been written to
\* the CA; the dispatcher is at accept and the session thread, still
\* registered, at its channel
C12_Witness ==
    /\ conn.req.kind = "InvokeCommand"
    /\ conn.cls = "open"
    /\ conn.resp # NoResp
    /\ conn.resp.result \in ErrCodes
    /\ Serving
    /\ workers[conn.w].pc = "recv"
    /\ HasSender(conn.w)

\* C13: a RequestCancellation is answered (or explicitly rejected) with the
\* registry, the id counter and every session thread left as they were, and
\* the dispatcher goes back to accept.
C13_CancellationHandled ==
    [][Accepts("RequestCancellation")
         => /\ conn'.resp # NoResp
            /\ Serving'
            /\ UNCHANGED <<session_id, sessions, workers, chan, nsent,
                           replyCh>>]_vars

\* C14: once a Destroy request is received destroy has been called exactly
\* once and the accept loop is over; destroy is not called without one.
C14_DestroyShutsDown ==
    /\ conn.req.kind = "Destroy" => hist.destroys = 1 /\ ~Serving
    /\ conn.req.kind # "Destroy" => hist.destroys = 0

\* a CA connection has been accepted or a session exists
HasServed ==
    \/ disp.pc \in {"accept", "open_session", "recv", "panic"}
    \/ conn.req # NoReq
    \/ workers # << >>
    \/ DOMAIN sessions # {}

\* C15: create comes before the Register message, the Register message
\* before the bind, and the gateway accepts a connection or holds a session
\* only after all three; a start that failed never accepts anything.
C15_RegisterBeforeServing ==
    /\ [](/\ hist.boot.registered => hist.boot.created
          /\ hist.boot.bound => hist.boot.registered
          /\ HasServed => hist.boot = Started
          /\ (disp.pc = "error" /\ hist.boot # Started) => ~HasServed)
    /\ [][hist.boot # Started
            => UNCHANGED <<conn, session_id, sessions, workers>>]_vars

\* a started gateway has answered a request and holds a session
C15_Witness ==
    /\ hist.boot = Started
    /\ Serving
    /\ conn.resp # NoResp
    /\ DOMAIN sessions # {}

\* this step ends the dispatcher's wait for the reply to an InvokeCommand
\* on a session that is open
InvokeOnOpenReturns ==
    /\ disp.pc = "recv"
    /\ disp' # disp
    /\ conn.req.kind = "InvokeCommand"
    /\ conn.cls = "open"

\* C16: an InvokeCommand on an open session is executed by the thread
\* registered under that id, on the context that thread was spawned with
\* and no other thread has, with the request's command id and Parameter
\* Block; the response written is invoke_command's status and the Parameter
\* Block as the call left it.
C16_InvokeRelayedVerbatim ==
    [][InvokeOnOpenReturns
         => LET rep == replyCh[disp.rid]
                own == sessions[conn.req.session_id]
            IN /\ rep.st = "full"
               /\ rep.svc.by = own
               /\ rep.svc.ctx = workers[own].ctx
               /\ \A w \in DOMAIN workers :
                     w # own => workers[w].ctx # rep.svc.ctx
               /\ rep.svc.msg.kind = "Invoke"
               /\ rep.svc.msg.cmd_id = conn.req.cmd_id
               /\ rep.svc.msg.params = conn.req.params
               /\ conn'.resp = InvokeCommandResp(rep.svc.params, rep.svc.res)
               /\ Serving']_vars

\* with two sessions open, an InvokeCommand has been answered with an error
\* status and a Parameter Block the call changed
C16_Witness ==
    /\ conn.req.kind = "InvokeCommand"
    /\ conn.cls = "open"
    /\ conn.resp # NoResp
    /\ conn.resp.result # Zero
    /\ conn.resp.params # conn.req.params
    /\ Len(workers) = 2
    /\ Serving

\* close_session has been called on the context of worker w
CloseCalled(w) == workers[w].pc \in {"close", "break", "exited"}

\* C17: once close_session has been called on a session's context its
\* thread takes no further command and ends, and no thread enters the
\* service logic on that context again.
C17_WorkerEndsAfterClose ==
    [][\A w \in DOMAIN workers :
          CloseCalled(w)
          => /\ workers'[w].pc \in {"close", "break", "exited"}
             /\ workers'[w].pc = "close" => workers[w].pc = "close"
             /\ workers'[w].called = workers[w].called
             /\ \A x \in DOMAIN workers' :
                   x # w => workers'[x].using # workers[w].ctx]_vars

\* a thread has ended after Close although the dispatcher sent it a later
\* command
C17_Witness ==
    \E w \in DOMAIN workers :
        /\ workers[w].pc = "exited"
        /\ nsent[w] > workers[w].called

\* the OpenSession requests that have succeeded: each spawned one thread
SuccessfulOpens == Len(workers)

\* C18: between requests the counter has advanced once per successful
\* OpenSession and not otherwise: a failed OpenSession, a CloseSession and
\* an InvokeCommand leave it where it was.
C18_CounterOnlyOnSuccess ==
    disp.pc # "open_session" => session_id = U32(1 + SuccessfulOpens)

\* C19: a request that cannot be read or decoded changes neither the
\* registry nor the counter nor any session thread, calls no service logic,
\* and leaves the dispatcher accepting, so that earlier sessions can still
\* be used.
C19_DecodeFailureIsolated ==
    [][Accepts("undecodable")
         => /\ UNCHANGED <<session_id, sessions, workers, chan, nsent,
                           replyCh>>
            /\ Serving']_vars

\* ------------------------------------------------- the gateway, scheduled
\* a step of session thread w: taking a message or returning from a call
WorkerStep(w) ==
    /\ w \in DOMAIN workers
    /\ \/ WorkerRecv(w)
       \/ \E res \in ServiceResults, p \in Params : WorkerInvokeReturn(w, res, p)
       \/ \E res \in ServiceResults : WorkerCloseReturn(w, res)

\* the dispatcher's resp_rx.recv() returning a reply that has arrived
DispatcherWakes == CloseSessionRecv \/ InvokeCommandRecv

\* Threads are OS threads: a session thread with a message to take or a
\* service call to return from gets to do so, and the dispatcher blocked in
\* recv() is woken by the reply.
Fairness ==
    /\ \A w \in 1..MaxOpens : WF_vars(WorkerStep(w))
    /\ WF_vars(DispatcherWakes)

SpecLive == Init /\ [][Next]_vars /\ Fairness

\* the dispatcher waits for the reply to a request on an open session
AwaitsOpenSession == disp.pc = "recv" /\ conn.cls = "open"

\* C20: a CloseSession or InvokeCommand accepted for an open session is
\* eventually answered, with the dispatcher back at accept.
C20_OpenSessionAnswered ==
    AwaitsOpenSession ~> (Serving /\ conn.resp # NoResp)

\* a CloseSession on an open session has been sent to its thread
C20_Witness ==
    /\ AwaitsOpenSession
    /\ conn.req.kind = "CloseSession"
    /\ chan[conn.w] # << >>

====
